---- MODULE Spec2Model ----
(***************************************************************************)
(* Rubric Validator: the Streamlit session (src/streamlit_app.py) and the  *)
(* command-line entry point (src/rubric_validator.py).                      *)
(*                                                                         *)
(* Four specifications share the variables below:                          *)
(*   Spec        the rubric editing session (render, add, remove, edit)    *)
(*   SpecImport  "Replace rubrics with pasted JSON"                        *)
(*   SpecHandle  "Validate": handle(False) on an engine reply              *)
(*   SpecCli     rubric_validator.main()                                   *)
(*                                                                         *)
(* Python values are modelled as follows.  A dict is a record, a missing   *)
(* key is the value Absent, a value of a type the code does not expect is  *)
(* a tagged record such as NonStr.  str.strip() and str.lower() are        *)
(* tables over the strings that occur in the model.                        *)
(*                                                                         *)
(* A Streamlit widget called with value=/index= returns that default on    *)
(* the run that follows a change of the stored rubric, and the value the   *)
(* user entered on the run that the user's edit triggers.                  *)
(***************************************************************************)
EXTENDS Integers, Sequences, FiniteSets, TLC

VARIABLES
  rubrics,       \* st.session_state["rubrics"]
  prev,          \* the rubric set before the last removal / import
  lastOp,        \* the last operation of the session
  idEdited,      \* an ID text input has been edited by hand
  nEdits,        \* number of manual edits so far
  json_input,    \* the pasted JSON text area
  importStatus,  \* "idle" | "loaded" (st.success) | "failed" (st.error)
  content,       \* what the engine answers to the boundary call
  status,        \* status_placeholder: "idle" | "done" | "error"
  shown,         \* the per-item blocks written by handle(), in order
  resultJson,    \* result_placeholder.json(...): NoJson or the value shown
  cli            \* the state of one run of rubric_validator.main()

vars == <<rubrics, prev, lastOp, idEdited, nEdits, json_input, importStatus,
          content, status, shown, resultJson, cli>>

sessVars   == <<rubrics, prev, lastOp, idEdited, nEdits>>
importVars == <<json_input, importStatus>>
handleVars == <<content, status, shown, resultJson>>

(***************************************************************************)
(* Bounds                                                                  *)
(***************************************************************************)
MaxRubrics == 3
MaxEdits == 1
MaxItems == 2
MaxFeedback == 2

(***************************************************************************)
(* Python values                                                           *)
(***************************************************************************)
Absent == [py |-> "absent"]
NonStr == [py |-> "number"]
NonDict == [py |-> "nondict"]
NoJson == [py |-> "nothing"]

Range(s) == {s[i] : i \in 1..Len(s)}

\* f"R{n}"
RNames == <<"R1", "R2", "R3", "R4", "R5", "R6", "R7", "R8">>
RId(n) == RNames[n]

(***************************************************************************)
(* The session's rubric set                                                *)
(***************************************************************************)
Text1 == "Function calculate_discount in src/pricing.py must return 0 for negative totals."
Text2 == "Email subjects and bodies should look consistent."

default_rubrics ==
  << [id |-> "R1", type |-> "correctness", importance |-> "must-follow",
      positive |-> TRUE, text |-> Text1],
     [id |-> "R2", type |-> "code style", importance |-> "good-to-have",
      positive |-> TRUE, text |-> Text2] >>

type_options == <<"correctness", "code style", "summary", "agent behavior", "other">>
importance_options == <<"must-follow", "good-to-have", "universal">>

\* a select box that returns the stored value though it is not an option
SelectKeep(options, current) == current

\* options[options.index(current) if current in options else 0]
SelectDefault(options, current) ==
  IF current \in Range(options) THEN current ELSE options[1]

\* One pass of the render loop body on an unedited form: each widget returns
\* its default, and the rubric is rewritten from the widget values.
RenderRubric(rubric) ==
  [id |-> rubric.id,
   type |-> SelectDefault(type_options, rubric.type),
   importance |-> SelectDefault(importance_options, rubric.importance),
   positive |-> rubric.positive,
   text |-> rubric.text]

\* The render loop over the whole set (one script run without a click).
Render(rs) == [i \in 1..Len(rs) |-> RenderRubric(rs[i])]

\* a pop that ignores idx and drops the last rubric
PopLast(rs, idx) == SubSeq(rs, 1, Len(rs) - 1)

\* list.pop(idx), idx counted from 1 here
Pop(rs, idx) == SubSeq(rs, 1, idx - 1) \o SubSeq(rs, idx + 1, Len(rs))

\* "Remove this rubric" on form idx: forms 1..idx are rendered, the rubric
\* is popped, and st.rerun() renders the remaining forms.
RemoveRubric(idx) ==
  /\ idx \in 1..Len(rubrics)
  /\ prev' = rubrics
  /\ rubrics' = Render(Pop(Render(rubrics), idx))
  /\ lastOp' = [op |-> "remove", idx |-> idx]
  /\ UNCHANGED <<idEdited, nEdits>>

\* "Add rubric": the forms are rendered, a blank rubric named after the new
\* length is appended, and st.rerun() renders the forms again.
NewRubric(rs) ==
  [id |-> RId(Len(rs) + 1), type |-> "correctness", importance |-> "must-follow",
   positive |-> TRUE, text |-> ""]

AddRubric ==
  /\ Len(rubrics) < MaxRubrics
  /\ rubrics' = Render(Append(Render(rubrics), NewRubric(Render(rubrics))))
  /\ prev' = <<>>
  /\ lastOp' = [op |-> "add", idx |-> Len(rubrics) + 1]
  /\ UNCHANGED <<idEdited, nEdits>>

\* The values a user enters in the widgets of one form.
EditIds == {"", "A"}
EditTypes == {"other"}
EditImportances == {"universal"}
EditTexts == {"edited"}

\* The user changes one widget of form idx; the run it triggers rewrites the
\* rubric from the widget values.
EditRubric(idx, field, v) ==
  /\ nEdits < MaxEdits
  /\ idx \in 1..Len(rubrics)
  /\ rubrics[idx][field] # v
  /\ rubrics' = Render([rubrics EXCEPT ![idx][field] = v])
  /\ idEdited' = (idEdited \/ field = "id")
  /\ nEdits' = nEdits + 1
  /\ prev' = <<>>
  /\ lastOp' = [op |-> "edit", idx |-> idx]

Edit ==
  \E idx \in 1..Len(rubrics) :
    \/ \E v \in EditIds : EditRubric(idx, "id", v)
    \/ \E v \in EditTypes : EditRubric(idx, "type", v)
    \/ \E v \in EditImportances : EditRubric(idx, "importance", v)
    \/ EditRubric(idx, "positive", ~rubrics[idx].positive)
    \/ \E v \in EditTexts : EditRubric(idx, "text", v)

Remove == \E idx \in 1..Len(rubrics) : RemoveRubric(idx)

(***************************************************************************)
(* States of the parts a specification leaves idle                         *)
(***************************************************************************)
SessionStart ==
  /\ rubrics = Render(default_rubrics)
  /\ prev = <<>>
  /\ lastOp = [op |-> "start", idx |-> 0]
  /\ idEdited = FALSE
  /\ nEdits = 0

ImportIdle == json_input = NoJson /\ importStatus = "idle"

HandleIdle ==
  /\ content = NoJson
  /\ status = "idle"
  /\ shown = <<>>
  /\ resultJson = NoJson

CliIdle == cli = [pc |-> "off"]

(***************************************************************************)
(* Spec: the editing session                                               *)
(***************************************************************************)
Init == SessionStart /\ ImportIdle /\ HandleIdle /\ CliIdle

Next ==
  \/ AddRubric /\ UNCHANGED <<importVars, handleVars, cli>>
  \/ Remove /\ UNCHANGED <<importVars, handleVars, cli>>
  \/ Edit /\ UNCHANGED <<importVars, handleVars, cli>>

Spec == Init /\ [][Next]_vars

Ids(rs) == [i \in 1..Len(rs) |-> rs[i].id]

Distinct(s) == \A i, j \in 1..Len(s) : i # j => s[i] # s[j]

\* C4: starting from the default set, after any sequence of "Add rubric" and
\* "Remove this rubric" with no manual edit of an id, the ids of the rubrics
\* in the set are pairwise distinct.
C4_UniqueIds == ~idEdited => Distinct(Ids(rubrics))

Str(s) == [py |-> "str", s |-> s]
Bool(b) == [py |-> "bool", v |-> b]
Zero == [py |-> "zero"]
NotJsonText == [py |-> "notjson"]
JsonObject == [py |-> "object"]
JsonList(items) == [py |-> "list", items |-> items]
Dict(id, title, annotations) ==
  [py |-> "dict", id |-> id, title |-> title, annotations |-> annotations]
Annotations(importance, type, is_positive) ==
  [py |-> "dict", importance |-> importance, type |-> type, is_positive |-> is_positive]

\* str.strip() and str.lower() on the strings of the model
Strip(s) ==
  CASE s = " Must Follow " -> "Must Follow"
    [] s = " must follow " -> "must follow"
    [] s = " High " -> "High"
    [] s = " high " -> "high"
    [] s = " Title A " -> "Title A"
    [] s = " TRUE " -> "TRUE"
    [] s = " true " -> "true"
    [] s = " summary " -> "summary"
    [] s = " " -> ""
    [] OTHER -> s

Lower(s) ==
  CASE s = "Must Follow" -> "must follow"
    [] s = " Must Follow " -> " must follow "
    [] s = "Good To Have" -> "good to have"
    [] s = "High" -> "high"
    [] s = " High " -> " high "
    [] s = "TRUE" -> "true"
    [] s = " TRUE " -> " true "
    [] s = "Code Style" -> "code style"
    [] s = "Style" -> "style"
    [] OTHER -> s

\* Python truthiness
Truthy(v) ==
  CASE v.py = "absent" -> FALSE
    [] v.py = "zero" -> FALSE
    [] v.py = "str" -> v.s # ""
    [] v.py = "bool" -> v.v
    [] OTHER -> TRUE

\* (v or "")
OrEmpty(v) == IF Truthy(v) THEN v ELSE Str("")

importance_map ==
  ("must follow" :> "must-follow") @@ ("good to have" :> "good-to-have")
    @@ ("universal" :> "universal")

import_types == <<"correctness", "code style", "summary", "agent behavior", "other">>

\* item.get("annotations", {}) if it is a dict, else {}
AnnotationsOf(item) ==
  IF item.annotations.py = "dict" THEN item.annotations
  ELSE Annotations(Absent, Absent, Absent)

\* .strip() of a value that is not a string raises AttributeError
Raises(item) ==
  \/ OrEmpty(item.title).py # "str"
  \/ OrEmpty(AnnotationsOf(item).importance).py # "str"
  \/ OrEmpty(AnnotationsOf(item).type).py # "str"

MapPositive(is_positive_raw) ==
  IF is_positive_raw.py = "str" THEN Lower(Strip(is_positive_raw.s)) = "true"
  ELSE IF is_positive_raw.py # "absent" THEN Truthy(is_positive_raw) ELSE TRUE

\* The body of the mapping loop for the dict at position p (p = idx + 1).
MapItem(p, item) ==
  LET annotations == AnnotationsOf(item)
      title == Strip(OrEmpty(item.title).s)
      importance_raw == Lower(Strip(OrEmpty(annotations.importance).s))
      importance ==
        IF importance_raw \in DOMAIN importance_map THEN importance_map[importance_raw]
        ELSE IF importance_raw # "" THEN importance_raw ELSE "must-follow"
      type_raw == Lower(Strip(OrEmpty(annotations.type).s))
      rubric_type == IF type_raw \in Range(import_types) THEN type_raw ELSE "correctness"
  IN [id |-> IF item.id.py = "absent" THEN RId(p) ELSE item.id.s,
      type |-> rubric_type,
      importance |-> importance,
      positive |-> MapPositive(annotations.is_positive),
      text |-> title]

RECURSIVE MapFrom(_, _)
\* mapped, for the items from position p on
MapFrom(items, p) ==
  IF p > Len(items) THEN <<>>
  ELSE IF items[p].py # "dict" THEN MapFrom(items, p + 1)
  ELSE <<MapItem(p, items[p])>> \o MapFrom(items, p + 1)

\* The try block: [ok, mapped]; ok is FALSE when an exception reaches the
\* except clause.
ImportJson(raw) ==
  IF raw.py # "list" THEN [ok |-> FALSE, mapped |-> <<>>]
  ELSE IF \E p \in 1..Len(raw.items) : raw.items[p].py = "dict" /\ Raises(raw.items[p])
    THEN [ok |-> FALSE, mapped |-> <<>>]
  ELSE IF MapFrom(raw.items, 1) = <<>> THEN [ok |-> FALSE, mapped |-> <<>>]
  ELSE [ok |-> TRUE, mapped |-> MapFrom(raw.items, 1)]

\* The click: the forms are rendered, the pasted text is mapped, and on
\* success the set is replaced and st.rerun() renders the new forms.
ImportClick ==
  /\ importStatus = "idle"
  /\ LET r == ImportJson(json_input) IN
       /\ rubrics' = IF r.ok THEN Render(r.mapped) ELSE Render(rubrics)
       /\ importStatus' = IF r.ok THEN "loaded" ELSE "failed"
  /\ prev' = rubrics
  /\ lastOp' = [op |-> "import", idx |-> 0]
  /\ UNCHANGED <<idEdited, nEdits, json_input>>

\* Pasted documents
BaseItem == Dict(Absent, Str(" Title A "), Annotations(Absent, Absent, Absent))

ImportanceValues ==
  {Str("must follow"), Str(" Must Follow "), Str("Good To Have"), Str("universal"),
   Str(" High "), Str(""), Str(" "), NonStr, Zero}

TypeValues ==
  {Str("correctness"), Str("Code Style"), Str(" summary "), Str("Style"),
   Str("agent-behavior"), Str("agent behavior"), Str("other"), Str("bogus"), NonStr}

PositiveValues ==
  {Str(" TRUE "), Str("false"), Str("yes"), Bool(TRUE), Bool(FALSE), Zero, NonStr}

\* Records that are already canonical: id, type, importance, positive, text
CanonicalItem(id, type, importance, positive, text) ==
  [py |-> "dict", id |-> Str(id), title |-> Absent, annotations |-> Absent,
   type |-> Str(type), importance |-> Str(importance), positive |-> Bool(positive),
   text |-> Str(text)]

CanonicalItems ==
  {CanonicalItem("R1", t, "must-follow", TRUE, "Title B")
     : t \in {"correctness", "style", "agent-behavior", "summary", "other"}}
    \cup {CanonicalItem("R2", "correctness", i, TRUE, "Title B")
            : i \in {"good-to-have", "universal"}}
    \cup {CanonicalItem("R2", "correctness", "must-follow", FALSE, "Title B")}

ItemValues ==
  {NonDict, BaseItem}
    \cup CanonicalItems
    \cup {Dict(Str("A"), Str("Title B"), Annotations(Absent, Absent, Absent))}
    \cup {Dict(Absent, t, Annotations(Absent, Absent, Absent)) : t \in {Absent, Str(""), NonStr}}
    \cup {Dict(Absent, Str("Title B"), a) : a \in {Absent, NonDict}}
    \cup {Dict(Absent, Str("Title B"), Annotations(v, Absent, Absent)) : v \in ImportanceValues}
    \cup {Dict(Absent, Str("Title B"), Annotations(Absent, v, Absent)) : v \in TypeValues}
    \cup {Dict(Absent, Str("Title B"), Annotations(Absent, Absent, v)) : v \in PositiveValues}

SeqsUpTo(S, n) == UNION {[1..k -> S] : k \in 0..n}

JsonInputs ==
  {NotJsonText, JsonObject} \cup {JsonList(items) : items \in SeqsUpTo(ItemValues, MaxItems)}

\* Rubric sets the session can hold when the JSON is pasted
StartSets ==
  {Render(default_rubrics), Pop(Render(default_rubrics), 1), <<>>}

InitImport ==
  /\ rubrics \in StartSets
  /\ prev = <<>>
  /\ lastOp = [op |-> "start", idx |-> 0]
  /\ idEdited = FALSE
  /\ nEdits = 0
  /\ json_input \in JsonInputs
  /\ importStatus = "idle"
  /\ HandleIdle
  /\ CliIdle

NextImport == ImportClick /\ UNCHANGED <<handleVars, cli>>

SpecImport == InitImport /\ [][NextImport]_vars

\* The mappings of a pasted array, in order
DictItems(items) == SelectSeq(items, LAMBDA it : it.py = "dict")

Imported == importStatus # "idle" /\ json_input.py = "list"

\* C6: an empty array is not an error and yields an empty rubric set; a
\* non-empty array without any mapping is an error that leaves the rubric
\* set unchanged; elements that are not mappings are skipped and do not fail
\* an import that has a (well-typed) mapping.
C6_EmptyVsNoUsable ==
  Imported =>
    LET items == json_input.items
        dicts == DictItems(items) IN
      /\ items = <<>> => importStatus = "loaded" /\ rubrics = <<>>
      /\ (items # <<>> /\ dicts = <<>>) => importStatus = "failed" /\ rubrics = prev
      /\ (dicts # <<>> /\ \A k \in 1..Len(dicts) : ~Raises(dicts[k])) =>
           importStatus = "loaded" /\ Len(rubrics) = Len(dicts)

\* The importance the fixed table gives to annotations.importance
CanonicalImportance(v) ==
  LET raw == Lower(Strip(OrEmpty(v).s)) IN
    CASE raw = "must follow" -> "must-follow"
      [] raw = "good to have" -> "good-to-have"
      [] raw = "universal" -> "universal"
      [] OTHER -> "must-follow"

ClosedTypes == {"correctness", "style", "agent-behavior", "summary", "other"}

\* C8: after an import, the type of every produced rubric is a member of
\* {correctness, style, agent-behavior, summary, other}: the lower-cased,
\* trimmed annotations.type when it is a member of that set, else correctness.
C8_TypeClosedSet ==
  (Imported /\ importStatus = "loaded") =>
    LET dicts == DictItems(json_input.items) IN
      \A k \in 1..Len(rubrics) :
        LET raw == Lower(Strip(OrEmpty(AnnotationsOf(dicts[k]).type).s)) IN
          /\ rubrics[k].type \in ClosedTypes
          /\ rubrics[k].type = IF raw \in ClosedTypes THEN raw ELSE "correctness"

(***************************************************************************)
(* "Validate": handle(False)                                               *)
(***************************************************************************)
Unhashable == [py |-> "unhashable"]
CallRaised == [py |-> "raise"]
NotJsonReply == [py |-> "notjson", text |-> "I cannot answer in JSON"]
FeedbackList(items) == [py |-> "list", items |-> items]
Reply(rubric_feedback) == [py |-> "dict", rubric_feedback |-> rubric_feedback]
FeedbackItem(id, verdict, issues, suggested_fix) ==
  [py |-> "dict", id |-> id, verdict |-> verdict, issues |-> issues,
   suggested_fix |-> suggested_fix]

\* rubric_lookup = {r.get("id"): r for r in rubrics if ... r.get("id")},
\* as the position of the rubric an id maps to (0: not a key)
MaxOf(S) == CHOOSE m \in S : \A n \in S : n <= m

rubric_lookup(rs, id) ==
  LET hits == {j \in 1..Len(rs) : rs[j].id # "" /\ rs[j].id = id} IN
    IF hits = {} THEN 0 ELSE MaxOf(hits)

\* item.get("id", "") if isinstance(item, dict) else ""
RubricIdOf(item) ==
  IF item.py = "dict" /\ item.id.py # "absent" THEN item.id ELSE Str("")

\* rubric_lookup.get(rubric_id) or (rubrics[idx] if idx < len(rubrics) else {}),
\* as a position in rubrics; 0 stands for {}.  pos = idx + 1.
Original(rs, pos, rubric_id) ==
  LET byId == IF rubric_id.py = "str" THEN rubric_lookup(rs, rubric_id.s) ELSE 0 IN
    IF byId # 0 THEN byId ELSE IF pos <= Len(rs) THEN pos ELSE 0

\* rubric_lookup.get(rubric_id) raises TypeError on an unhashable key
LookupRaises(item) == RubricIdOf(item).py = "unhashable"

\* "for issue in issues" raises TypeError on a truthy value that is not iterable
IssuesRaise(item) ==
  item.py = "dict" /\ Truthy(item.issues) /\ item.issues.py \in {"number", "bool"}

\* The block the loop body writes for the item at position pos.
Block(rs, pos, item) ==
  [pos |-> pos, rubric_id |-> RubricIdOf(item),
   original |-> Original(rs, pos, RubricIdOf(item)),
   item |-> item,
   verdict |-> IF item.py = "dict" THEN item.verdict ELSE Absent]

RECURSIVE ShowFrom(_, _, _)
\* The loop over feedback from position pos on: the blocks written and
\* whether an exception ended the loop.
ShowFrom(rs, feedback, pos) ==
  IF pos > Len(feedback) THEN [blocks |-> <<>>, raised |-> FALSE]
  ELSE IF LookupRaises(feedback[pos]) THEN [blocks |-> <<>>, raised |-> TRUE]
  ELSE IF IssuesRaise(feedback[pos])
    THEN [blocks |-> <<Block(rs, pos, feedback[pos])>>, raised |-> TRUE]
  ELSE LET rest == ShowFrom(rs, feedback, pos + 1) IN
         [blocks |-> <<Block(rs, pos, feedback[pos])>> \o rest.blocks,
          raised |-> rest.raised]

\* parsed.get("rubric_feedback") if isinstance(parsed, dict) else None
FeedbackOf(reply) == IF reply.py = "dict" THEN reply.rubric_feedback ELSE Absent

\* "if feedback and isinstance(feedback, list)"
HasFeedbackList(reply) ==
  FeedbackOf(reply).py = "list" /\ FeedbackOf(reply).items # <<>>

\* json.loads(content), {"raw": content} when it does not parse
Parsed(reply) == IF reply.py = "notjson" THEN [py |-> "dict", raw |-> reply] ELSE reply

Validate ==
  /\ status = "idle"
  /\ IF content = CallRaised
       THEN /\ status' = "error"
            /\ UNCHANGED <<shown, resultJson>>
     ELSE IF HasFeedbackList(content)
       THEN LET r == ShowFrom(Render(rubrics), FeedbackOf(content).items, 1) IN
              /\ shown' = r.blocks
              /\ status' = IF r.raised THEN "error" ELSE "done"
              /\ UNCHANGED resultJson
     ELSE /\ resultJson' = Parsed(content)
          /\ status' = "done"
          /\ UNCHANGED shown
  /\ rubrics' = Render(rubrics)
  /\ lastOp' = [op |-> "validate", idx |-> 0]
  /\ UNCHANGED <<prev, idEdited, nEdits, content>>

\* Engine replies
BaseFeedback == FeedbackItem(Str("R1"), Str("pass"), FeedbackList(<<>>), Str(""))

FeedbackItems ==
  {NonDict, BaseFeedback}
    \cup {FeedbackItem(i, Str("fail"), FeedbackList(<<Str("too vague")>>), Str("name the file"))
            : i \in {Absent, Str("R2"), Str("Z"), Str(""), NonStr, Unhashable}}
    \cup {FeedbackItem(Str("R1"), v, FeedbackList(<<>>), Str("")) : v \in {Absent, NonStr}}
    \cup {FeedbackItem(Str("R1"), Str("fail"), v, Str(""))
            : v \in {Absent, Str("too vague"), NonStr, Zero}}
    \cup {FeedbackItem(Str("R1"), Str("fail"), FeedbackList(<<>>), NonStr)}

Replies ==
  {CallRaised, NotJsonReply, NonStr, FeedbackList(<<>>)}
    \cup {Reply(v) : v \in {Absent, NonStr, Str("none")}}
    \cup {Reply(FeedbackList(items)) : items \in SeqsUpTo(FeedbackItems, MaxFeedback)}

\* Rubric sets the session can hold when "Validate" is clicked
EmptyIdSet == [Render(default_rubrics) EXCEPT ![1].id = ""]
AddedAfterRemove ==
  Append(Pop(Render(default_rubrics), 1), NewRubric(Pop(Render(default_rubrics), 1)))

SubmittedSets ==
  {Render(default_rubrics), Pop(Render(default_rubrics), 2), AddedAfterRemove,
   EmptyIdSet, <<>>}

InitHandle ==
  /\ rubrics \in SubmittedSets
  /\ prev = <<>>
  /\ lastOp = [op |-> "start", idx |-> 0]
  /\ idEdited = FALSE
  /\ nEdits = 0
  /\ ImportIdle
  /\ content \in Replies
  /\ status = "idle"
  /\ shown = <<>>
  /\ resultJson = NoJson
  /\ CliIdle

NextHandle == Validate /\ UNCHANGED <<importVars, cli>>

SpecHandle == InitHandle /\ [][NextHandle]_vars

Validated == status # "idle" /\ content # CallRaised

\* handle() writes one block per feedback item and nothing per rubric: the
\* rubrics it reports as missing feedback.
MissingFeedbackReported == {}

\* C1: when the reply is valid JSON whose rubric_feedback list has no item for
\* some submitted rubric, that rubric is reported as missing feedback and gets
\* no verdict: after reconciliation every submitted rubric has a feedback
\* item or a missing-feedback diagnostic.
C1_MissingFeedbackReported ==
  (Validated /\ status = "done" /\ HasFeedbackList(content)) =>
    \A j \in 1..Len(rubrics) :
      \/ \E b \in 1..Len(shown) : shown[b].original = j
      \/ j \in MissingFeedbackReported

\* C2: every feedback item at position i is shown; it is paired with the
\* submitted rubric that has its id, otherwise with the rubric at position i,
\* and beyond the last rubric it is shown with no original record.
C2_PairingDropsNothing ==
  (Validated /\ HasFeedbackList(content)) =>
    LET feedback == FeedbackOf(content).items IN
      /\ Len(shown) = Len(feedback)
      /\ \A i \in 1..Len(feedback) :
           LET item == feedback[i]
               sameId == {j \in 1..Len(rubrics) :
                            /\ item.py = "dict"
                            /\ item.id.py = "str"
                            /\ rubrics[j].id = item.id.s} IN
             /\ shown[i].pos = i
             /\ shown[i].item = item
             /\ sameId # {} => shown[i].original \in sameId
             /\ (sameId = {} /\ i <= Len(rubrics)) => shown[i].original = i
             /\ (sameId = {} /\ i > Len(rubrics)) => shown[i].original = 0

\* C3: whatever the engine replied, handle() completes the run and shows the
\* reply: the raw text verbatim when it is not JSON, the parsed value when it
\* holds no feedback list, a block per item otherwise; never an error.
C3_NeverFailsOnOutput ==
  Validated =>
    /\ status = "done"
    /\ content.py = "notjson" => resultJson = [py |-> "dict", raw |-> content]
    /\ (content.py # "notjson" /\ ~HasFeedbackList(content)) => resultJson = content
    /\ HasFeedbackList(content) => Len(shown) = Len(FeedbackOf(content).items)

(***************************************************************************)
(* rubric_validator.main()                                                 *)
(***************************************************************************)
\* x or y
Or(x, y) == IF Truthy(x) THEN x ELSE y

\* effective_key = api_key or os.getenv("OPENAI_API_KEY"); the file named by
\* --env-file is not read.
EffectiveKey(api_key, env_key, env_file_key) == Or(api_key, env_key)

\* a main() that does not test args.dry_run
AfterBuildAlwaysCall(dry_run) == "call"

\* where main() goes once the messages are built
AfterBuild(dry_run) == IF dry_run THEN "dry" ELSE "call"

PromptLines == <<"=== SYSTEM PROMPT ===", "SYSTEM_PROMPT", "=== USER MESSAGE ===", "user_message">>

\* an except clause that prints the error line and leaves out sys.exit(1)
FailExitZero(c, error) ==
  [c EXCEPT !.pc = "exit", !.stderr = Append(c.stderr, error), !.exit = 0]

\* except Exception: print the error line to stderr and sys.exit(1)
Fail(c, error) ==
  [c EXCEPT !.pc = "exit", !.stderr = Append(c.stderr, error), !.exit = 1]

CliStep(next) == cli' = next /\ UNCHANGED <<sessVars, importVars, handleVars>>

\* repo_description = read_text(args.repo_description)
ReadRepoDescription ==
  /\ cli.pc = "read_repo"
  /\ CliStep(IF cli.repo_file = "missing" THEN Fail(cli, "file not found")
             ELSE [cli EXCEPT !.pc = "read_diff"])

\* pr_diff = read_text(args.pr_diff)
ReadPrDiff ==
  /\ cli.pc = "read_diff"
  /\ CliStep(IF cli.diff_file = "missing" THEN Fail(cli, "file not found")
             ELSE [cli EXCEPT !.pc = "load_rubrics"])

\* rubrics = load_rubrics(args.rubrics)
LoadRubrics ==
  /\ cli.pc = "load_rubrics"
  /\ CliStep(CASE cli.rubrics_file = "missing" -> Fail(cli, "file not found")
               [] cli.rubrics_file = "notjson" -> Fail(cli, "not JSON")
               [] cli.rubrics_file = "nonarray" -> Fail(cli, "must contain a JSON array")
               [] cli.rubrics_file = "badelement" -> Fail(cli, "must be an object with a text field")
               [] OTHER -> [cli EXCEPT !.pc = "build"])

\* messages = build_messages(repo_description, pr_diff, rubrics)
BuildMessages ==
  /\ cli.pc = "build"
  /\ CliStep([cli EXCEPT !.pc = AfterBuild(cli.dry_run), !.messages = TRUE])

\* if args.dry_run: print the prompt and return
DryRun ==
  /\ cli.pc = "dry"
  /\ CliStep([cli EXCEPT !.pc = "exit", !.exit = 0,
                         !.stdout = cli.stdout \o PromptLines \o <<"(dry-run mode: no LLM call made)">>])

\* call_llm up to client.chat.completions.create
CallLlm ==
  /\ cli.pc = "call"
  /\ LET shownPrompt ==
           IF cli.show_prompt
             THEN [cli EXCEPT !.stdout = cli.stdout \o PromptLines \o <<"(LLM call follows)">>]
             ELSE cli
         effective_key == EffectiveKey(cli.api_key, cli.env_key, cli.env_file_key) IN
       CliStep(IF ~Truthy(effective_key) THEN Fail(shownPrompt, "OPENAI_API_KEY is not set")
               ELSE IF ~cli.openai_installed THEN Fail(shownPrompt, "openai package is missing")
               ELSE [shownPrompt EXCEPT !.pc = "sent", !.requests = cli.requests + 1,
                                        !.used_key = effective_key])

\* the engine's answer to the request: content is printed, or the call raises
Receive ==
  /\ cli.pc = "sent"
  /\ CliStep(CASE cli.engine = "transport" -> Fail(cli, "transport failure")
               [] cli.engine = "upstream" -> Fail(cli, "upstream failure")
               [] OTHER -> [cli EXCEPT !.pc = "exit", !.exit = 0,
                                       !.stdout = Append(cli.stdout, "content")])

KeyArgs == {Absent, Str(""), Str("sk-arg")}
EnvKeys == {Absent, Str(""), Str("sk-env")}
EnvFileKeys == {Absent, Str("sk-file")}
FileStates == {"missing", "ok"}
RubricFiles == {"missing", "notjson", "nonarray", "badelement", "ok"}
Engines == {"response", "transport", "upstream"}

InitCli ==
  /\ SessionStart /\ ImportIdle /\ HandleIdle
  /\ \E dry_run, show_prompt, openai_installed \in BOOLEAN :
       \E api_key \in KeyArgs, env_key \in EnvKeys, env_file_key \in EnvFileKeys :
         \E repo_file, diff_file \in FileStates, rubrics_file \in RubricFiles, engine \in Engines :
           cli = [pc |-> "read_repo", dry_run |-> dry_run, show_prompt |-> show_prompt,
                  api_key |-> api_key, env_key |-> env_key, env_file_key |-> env_file_key,
                  repo_file |-> repo_file, diff_file |-> diff_file,
                  rubrics_file |-> rubrics_file, openai_installed |-> openai_installed,
                  engine |-> engine, messages |-> FALSE, stdout |-> <<>>, stderr |-> <<>>,
                  exit |-> -1, requests |-> 0, used_key |-> Absent]

NextCli ==
  \/ ReadRepoDescription
  \/ ReadPrDiff
  \/ LoadRubrics
  \/ BuildMessages
  \/ DryRun
  \/ CallLlm
  \/ Receive

SpecCli == InitCli /\ [][NextCli]_vars

Running == cli.pc # "off"
Exited == Running /\ cli.pc = "exit"
InputsLoad ==
  cli.repo_file = "ok" /\ cli.diff_file = "ok" /\ cli.rubrics_file = "ok"
DocumentPrinted ==
  \E k \in 1..Len(cli.stdout) : cli.stdout[k] = "(dry-run mode: no LLM call made)"

FirstCredential ==
  IF Truthy(cli.api_key) THEN cli.api_key
  ELSE IF Truthy(cli.env_key) THEN cli.env_key
  ELSE cli.env_file_key

MissingCredentialError ==
  \E k \in 1..Len(cli.stderr) : cli.stderr[k] = "OPENAI_API_KEY is not set"

\* C10: the credential of the boundary call is the first of override
\* parameter, process environment, .env file; the call fails for a missing
\* credential only when none of the three provides one.
C10_CredentialOrder ==
  Running =>
    /\ cli.requests > 0 => cli.used_key = FirstCredential
    /\ MissingCredentialError => ~Truthy(FirstCredential)

ResponsePrinted ==
  cli.stdout # <<>> /\ cli.stdout[Len(cli.stdout)] = "content"

NoCredential == ~Truthy(cli.api_key) /\ ~Truthy(cli.env_key)

\* C11: a non-dry invocation exits 0 exactly when the boundary call returned
\* a response, which is printed; every failure (file not found, malformed
\* rubric file, missing credential, transport or upstream failure) prints one
\* error line to the error stream and exits 1; a load failure or a missing
\* credential happens before any request reaches the engine.
C11_ExitStatus ==
  (Running /\ ~cli.dry_run) =>
    /\ (~InputsLoad \/ NoCredential) => cli.requests = 0
    /\ cli.requests <= 1
    /\ Exited =>
         /\ cli.exit \in {0, 1}
         /\ cli.exit = 0 <=> (cli.requests = 1 /\ cli.engine = "response")
         /\ cli.exit = 0 => (ResponsePrinted /\ cli.stderr = <<>>)
         /\ cli.exit = 1 => (Len(cli.stderr) = 1 /\ ~ResponsePrinted)
         /\ (\/ ~InputsLoad
             \/ NoCredential
             \/ cli.engine \in {"transport", "upstream"}) => cli.exit = 1

\* A run whose request reached the engine and failed there.
C11_Witness ==
  /\ Exited /\ ~cli.dry_run
  /\ cli.requests = 1
  /\ cli.engine = "upstream"
  /\ cli.exit = 1
  /\ Len(cli.stderr) = 1

IsCanonical(item) == item.py = "dict" /\ "text" \in DOMAIN item

\* a canonical record as a rubric of the set
AsRubric(item) ==
  [id |-> item.id.s, type |-> item.type.s, importance |-> item.importance.s,
   positive |-> item.positive.v, text |-> item.text.s]

\* C12: normalization is idempotent on canonical input: importing a set
\* whose records already have id, type, importance, boolean positive and
\* non-empty text (and rendering its forms) yields a set equal to the input.
C12_NormalizeIdempotent ==
  (Imported /\ json_input.items # <<>>
     /\ \A k \in 1..Len(json_input.items) : IsCanonical(json_input.items[k])) =>
    /\ importStatus = "loaded"
    /\ rubrics = [k \in 1..Len(json_input.items) |-> AsRubric(json_input.items[k])]

====
